---- MODULE Spec2Model ----
(***************************************************************************)
(* duff, the duplicate file finder: the entry module (duffentry.c).         *)
(*                                                                         *)
(* An Entry describes one candidate file (path, size) and caches the SHA-1  *)
(* digest of its contents together with a status (UNTOUCHED, CHECKSUMMED,   *)
(* INVALID).  compare_entries decides whether two entries name files of     *)
(* equal contents, in three stages: size, digest and, with thorough_flag,   *)
(* byte by byte.                                                            *)
(*                                                                         *)
(* The file system is the environment: files are written and removed        *)
(* between the calls of the (single threaded) program, and a read of an     *)
(* open stream may fail at any offset.  One action models one call.         *)
(*                                                                         *)
(* Spec         the calls of duffentry.c, one action a call                 *)
(* SpecStreams  compare_entry_contents on its own, over longer files        *)
(* SpecThreads  the calls statement by statement, made by several threads   *)
(* SpecSteps    the calls statement by statement, made by one thread that   *)
(*              keeps running                                               *)
(***************************************************************************)
EXTENDS Integers, Sequences, FiniteSets, TLC

(* ------------------------------ bounds --------------------------------- *)

\* Longest file contents, in bytes.
MaxLen == 1

\* Longest file contents in the specification of the byte by byte stage.
MaxStream == 3

\* Largest size a caller passes to make_entry.
MaxSize == 1

\* Number of entries the caller allocates (make_entry and copy_entry).
MaxEntries == 2

\* Saturation of the count of digest passes over one entry.
MaxPasses == 2

\* Number of threads of control in the specification of concurrent calls.
MaxThreads == 2

(* ----------------------------- constants ------------------------------- *)

\* The paths of the candidate files.
Paths == {"p", "q"}

\* Byte values of file contents; 255 is the byte whose char value is -1.
Bytes == {0, 1, 255}

\* sizeof(buffer) in get_entry_checksum.
BufSize == 8192

\* <stdio.h>
EOF == -1

\* sha1.h
SHA1_HASH_SIZE == 20

\* enum of duff.h: the status of an entry.
UNTOUCHED == "UNTOUCHED"
CHECKSUMMED == "CHECKSUMMED"
INVALID == "INVALID"

RECURSIVE SeqsUpTo(_)
SeqsUpTo(n) ==
  IF n = 0 THEN {<<>>}
  ELSE LET shorter == SeqsUpTo(n - 1)
       IN shorter \cup {Append(s, b) : s \in {t \in shorter : Len(t) = n - 1}, b \in Bytes}

Contents == SeqsUpTo(MaxLen)

Min(a, b) == IF a < b THEN a ELSE b

(* ------------------------------- SHA-1 --------------------------------- *)
(* sha1.c is an incremental digest: SHA1Init, SHA1Update over the chunks,    *)
(* SHA1Final.  It is modelled by a small incremental hash that, like any     *)
(* hash, has collisions: the bytes 0 and 255 are folded alike.               *)

SHA1Init == 1

RECURSIVE SHA1Update(_, _)
SHA1Update(context, chunk) ==
  IF chunk = <<>> THEN context
  ELSE SHA1Update((context * 3 + Head(chunk) + 1) % 5, Tail(chunk))

SHA1Final(context) == [i \in 1..SHA1_HASH_SIZE |-> (context * i + 1) % 256]

\* The digest of a whole byte sequence, in one piece.
SHA1(data) == SHA1Final(SHA1Update(SHA1Init, data))

ZeroChecksum == [i \in 1..SHA1_HASH_SIZE |-> 0]

(* ---------------------------- the file system -------------------------- *)

\* A path with no file, or with a file that cannot be opened.
NoFile == [exists |-> FALSE, data |-> <<>>]

File(data) == [exists |-> TRUE, data |-> data]

FileStates == {NoFile} \cup {File(d) : d \in Contents}

\* The offset at which a read of an open stream fails; Len(data) + 1 is an
\* offset no read reaches: the stream is read without error.
ErrAts(data) == 0..(Len(data) + 1)

NoErr(data) == Len(data) + 1

\* fread(buffer, 1, n, file) at offset pos: the bytes delivered and ferror(file).
fread(data, pos, n, errAt) ==
  IF errAt >= pos /\ errAt < pos + n /\ errAt <= Len(data)
  THEN [bytes |-> SubSeq(data, pos + 1, errAt), error |-> TRUE]
  ELSE [bytes |-> SubSeq(data, pos + 1, Min(Len(data), pos + n)), error |-> FALSE]

\* Mutant of fgetc: the byte is taken as a (signed) char, so that 255 is -1.
fgetcChar(data, pos, errAt) ==
  IF errAt = pos \/ pos >= Len(data) THEN EOF
  ELSE IF data[pos + 1] >= 128 THEN data[pos + 1] - 256 ELSE data[pos + 1]

\* fgetc(stream) at offset pos: the byte as an int, or EOF at the end of the
\* file and on a read error.
fgetc(data, pos, errAt) ==
  IF errAt = pos \/ pos >= Len(data) THEN EOF ELSE data[pos + 1]

(* -------------------------------- state -------------------------------- *)

VARIABLES
  fs,             \* the file system: path -> file
  entries,        \* the entries allocated so far, in order of allocation
  passes,         \* per entry: the digest passes (fopen in get_entry_checksum)
                  \* behind its cached state
  origin,         \* per entry: the entry copy_entry took it from, 0 for make_entry
  thorough_flag,  \* duff.c: compare byte by byte after the digests
  quiet_flag,     \* duff.c: no warnings
  lastOp,         \* the call that has just returned, its result and its file
                  \* I/O; none once the environment has changed a file since
  threads         \* per thread of control: the call it is in and its position
                  \* there, for the specifications that follow a call step by step

vars == <<fs, entries, passes, origin, thorough_flag, quiet_flag, lastOp, threads>>

Allocated == 1..Len(entries)

Entry(path, size, status, checksum) ==
  [path |-> path, size |-> size, status |-> status, checksum |-> checksum]

\* What a call works on and what it has done so far: the entries (with the
\* count of digest passes), the fopen calls of get_entry_checksum (sums) and
\* of compare_entry_contents (streams), whether an fopen or a read failed,
\* the warnings written, and the streams that are open (handles).
Machine ==
  [entries |-> entries, passes |-> passes, origin |-> origin,
   sums |-> 0, streams |-> 0, fail |-> FALSE, warned |-> 0, handles |-> 0]

Return(m, ret) == [m |-> m, ret |-> ret]

(* ------------------------- get_entry_checksum -------------------------- *)
(* A call reads files, and a read may fail: a function of duffentry.c is the *)
(* set of the ways its call can return, one for each way its reads can go.   *)

\* fopen(path, "rb") yields a stream when the file can be opened, else NULL.
fopen(m, file) == IF file.exists THEN [m EXCEPT !.handles = @ + 1] ELSE m

\* fclose(stream).
fclose(m) == [m EXCEPT !.handles = @ - 1]

\* The for (;;) loop of get_entry_checksum over an open file: fread a
\* buffer, leave on ferror, stop at a read of size 0, else SHA1Update.
RECURSIVE DigestLoop(_, _, _, _)
DigestLoop(data, pos, context, errAt) ==
  LET r == fread(data, pos, BufSize, errAt)
      size == Len(r.bytes)
  IN IF r.error
     THEN [error |-> TRUE, context |-> context]
     ELSE IF size = 0
          THEN [error |-> FALSE, context |-> context]
          ELSE DigestLoop(data, pos + size, SHA1Update(context, r.bytes), errAt)

\* The two failure exits of get_entry_checksum: warning unless quiet_flag,
\* status = INVALID, return -1.
ChecksumFailed(m, entry) ==
  Return([m EXCEPT !.entries[entry].status = INVALID,
                   !.fail = TRUE,
                   !.warned = @ + (IF quiet_flag THEN 0 ELSE 1)],
         -1)

\* Mutants of get_entry_checksum.  NoInvalid: the test of INVALID is
\* missing, so that an INVALID entry leaves by "status != UNTOUCHED".
\* Retry: an INVALID entry is read again.  NoMemo: a CHECKSUMMED entry is
\* read again.  NoFinal: SHA1Final is missing.  Partial: a read error stores
\* the digest of the bytes read so far.  NoClose: the fclose of line 147 is
\* missing.  WarnInvalid: a call on an INVALID entry writes the warning again.
GetEntryChecksumVariant(m, entry, variant) ==
  LET e == m.entries[entry]
      file == fs[e.path]
      opened == fopen([m EXCEPT !.sums = @ + 1,
                                !.passes[entry] = Min(@ + 1, MaxPasses)],
                      file)
      failed == ChecksumFailed(IF variant = "NoClose" THEN opened ELSE fclose(opened),
                               entry)
  IN IF e.status = INVALID /\ variant = "WarnInvalid"
     THEN {Return([m EXCEPT !.warned = @ + (IF quiet_flag THEN 0 ELSE 1)], -1)}
     ELSE IF e.status = INVALID /\ variant \notin {"NoInvalid", "Retry"} THEN {Return(m, -1)}
     ELSE IF e.status = CHECKSUMMED /\ variant # "NoMemo" THEN {Return(m, 0)}
     ELSE IF e.status = INVALID /\ variant = "NoInvalid" THEN {Return(m, 0)}
     ELSE IF ~file.exists THEN {ChecksumFailed(opened, entry)}
     ELSE {IF d.error
           THEN IF variant = "Partial"
                THEN Return([failed.m EXCEPT
                               !.entries[entry].checksum = SHA1Final(d.context)], -1)
                ELSE failed
           ELSE Return([fclose(opened) EXCEPT
                          !.entries[entry].checksum =
                             IF variant = "NoFinal" THEN @ ELSE SHA1Final(d.context),
                          !.entries[entry].status = CHECKSUMMED],
                       0) :
             d \in {DigestLoop(file.data, 0, SHA1Init, errAt) :
                      errAt \in ErrAts(file.data)}}

GetEntryChecksumNoInvalid(m, entry) == GetEntryChecksumVariant(m, entry, "NoInvalid")

GetEntryChecksumRetry(m, entry) == GetEntryChecksumVariant(m, entry, "Retry")

GetEntryChecksumNoMemo(m, entry) == GetEntryChecksumVariant(m, entry, "NoMemo")

GetEntryChecksumNoFinal(m, entry) == GetEntryChecksumVariant(m, entry, "NoFinal")

GetEntryChecksumPartial(m, entry) == GetEntryChecksumVariant(m, entry, "Partial")

GetEntryChecksumNoClose(m, entry) == GetEntryChecksumVariant(m, entry, "NoClose")

GetEntryChecksumWarnInvalid(m, entry) ==
  GetEntryChecksumVariant(m, entry, "WarnInvalid")

\* Mutant of get_entry_checksum: a failure marks the path, that is every
\* entry of that path, not the entry.
GetEntryChecksumSamePath(m, entry) ==
  {IF r.ret = 0 THEN r
   ELSE Return([r.m EXCEPT !.entries =
                  [x \in DOMAIN r.m.entries |->
                     IF r.m.entries[x].path = r.m.entries[entry].path
                     THEN [r.m.entries[x] EXCEPT !.status = INVALID]
                     ELSE r.m.entries[x]]],
               -1) :
     r \in GetEntryChecksumVariant(m, entry, "none")}

GetEntryChecksum(m, entry) ==
  LET e == m.entries[entry]
      file == fs[e.path]
      opened == fopen([m EXCEPT !.sums = @ + 1,
                                !.passes[entry] = Min(@ + 1, MaxPasses)],
                      file)
  IN IF e.status = INVALID THEN {Return(m, -1)}
     ELSE IF e.status # UNTOUCHED THEN {Return(m, 0)}
     ELSE IF ~file.exists THEN {ChecksumFailed(opened, entry)}
     ELSE {IF d.error
           THEN ChecksumFailed(fclose(opened), entry)
           ELSE Return([fclose(opened) EXCEPT
                          !.entries[entry].checksum = SHA1Final(d.context),
                          !.entries[entry].status = CHECKSUMMED],
                       0) :
             d \in {DigestLoop(file.data, 0, SHA1Init, errAt) :
                      errAt \in ErrAts(file.data)}}

(* ----------------------- compare_entry_checksums ----------------------- *)

\* Mutant of compare_entry_checksums: both digests are asked for before
\* either result is tested.
CompareEntryChecksumsEager(m, first, second) ==
  UNION {{IF r1.ret # 0 \/ r2.ret # 0 THEN Return(r2.m, -1)
          ELSE IF \E i \in 0..(SHA1_HASH_SIZE - 1) :
                    r2.m.entries[first].checksum[i + 1]
                      # r2.m.entries[second].checksum[i + 1]
               THEN Return(r2.m, -1)
               ELSE Return(r2.m, 0) :
            r2 \in GetEntryChecksum(r1.m, second)} :
           r1 \in GetEntryChecksum(m, first)}

CompareEntryChecksums(m, first, second) ==
  UNION {IF r1.ret # 0 THEN {Return(r1.m, -1)}
         ELSE {IF r2.ret # 0 THEN Return(r2.m, -1)
               ELSE IF \E i \in 0..(SHA1_HASH_SIZE - 1) :
                         r2.m.entries[first].checksum[i + 1]
                           # r2.m.entries[second].checksum[i + 1]
                    THEN Return(r2.m, -1)
                    ELSE Return(r2.m, 0) :
                 r2 \in GetEntryChecksum(r1.m, second)} :
           r1 \in GetEntryChecksum(m, first)}

(* ------------------------ compare_entry_contents ----------------------- *)

\* The do ... while (fc != EOF) loop over the two open streams; error tells
\* whether an fgetc met a read error, pos the offset of the last two reads.
RECURSIVE ContentsLoop(_, _, _, _, _)
ContentsLoop(fdata, sdata, pos, c1, c2) ==
  LET fc == fgetc(fdata, pos, c1)
      sc == fgetc(sdata, pos, c2)
      error == (c1 = pos /\ pos <= Len(fdata)) \/ (c2 = pos /\ pos <= Len(sdata))
  IN IF fc # sc THEN [result |-> -1, error |-> error, pos |-> pos]
     ELSE IF fc # EOF
          THEN ContentsLoop(fdata, sdata, pos + 1, c1, c2)
          ELSE [result |-> 0, error |-> error, pos |-> pos]

\* Mutant of compare_entry_contents: the break at a mismatch returns at
\* once, past the two fclose calls.
CompareEntryContentsLeak(m, first, second) ==
  LET first_stream == fs[m.entries[first].path]
      second_stream == fs[m.entries[second].path]
      opened == fopen(fopen([m EXCEPT !.streams = @ + 2], first_stream), second_stream)
  IN IF ~first_stream.exists \/ ~second_stream.exists
     THEN {Return([(IF first_stream.exists \/ second_stream.exists
                    THEN fclose(opened) ELSE opened) EXCEPT !.fail = TRUE], -1)}
     ELSE {Return([(IF l.result = 0 THEN fclose(fclose(opened)) ELSE opened)
                     EXCEPT !.fail = @ \/ l.error], l.result) :
             l \in {ContentsLoop(first_stream.data, second_stream.data, 0, c[1], c[2]) :
                      c \in ErrAts(first_stream.data) \X ErrAts(second_stream.data)}}

CompareEntryContents(m, first, second) ==
  LET first_stream == fs[m.entries[first].path]
      second_stream == fs[m.entries[second].path]
      opened == fopen(fopen([m EXCEPT !.streams = @ + 2], first_stream), second_stream)
  IN IF ~first_stream.exists \/ ~second_stream.exists
     THEN {Return([(IF first_stream.exists \/ second_stream.exists
                    THEN fclose(opened) ELSE opened) EXCEPT !.fail = TRUE], -1)}
     ELSE {Return([fclose(fclose(opened)) EXCEPT !.fail = @ \/ l.error], l.result) :
             l \in {ContentsLoop(first_stream.data, second_stream.data, 0, c[1], c[2]) :
                      c \in ErrAts(first_stream.data) \X ErrAts(second_stream.data)}}

(* --------------------------- compare_entries --------------------------- *)

\* Mutants of compare_entries: without the test of the sizes, and without
\* the byte by byte stage.
CompareEntriesNoSize(m, first, second) ==
  UNION {IF s.ret # 0 THEN {Return(s.m, -1)}
         ELSE IF thorough_flag
              THEN {IF c.ret # 0 THEN Return(c.m, -1) ELSE Return(c.m, 0) :
                      c \in CompareEntryContents(s.m, first, second)}
              ELSE {Return(s.m, 0)} :
           s \in CompareEntryChecksums(m, first, second)}

CompareEntriesNoThorough(m, first, second) ==
  IF m.entries[first].size # m.entries[second].size THEN {Return(m, -1)}
  ELSE {IF s.ret # 0 THEN Return(s.m, -1) ELSE Return(s.m, 0) :
          s \in CompareEntryChecksums(m, first, second)}

\* Mutant of compare_entries: the test of the sizes is > for !=.
CompareEntriesSizeGreater(m, first, second) ==
  IF m.entries[first].size > m.entries[second].size THEN {Return(m, -1)}
  ELSE UNION {IF s.ret # 0 THEN {Return(s.m, -1)}
              ELSE IF thorough_flag
                   THEN {IF c.ret # 0 THEN Return(c.m, -1) ELSE Return(c.m, 0) :
                           c \in CompareEntryContents(s.m, first, second)}
                   ELSE {Return(s.m, 0)} :
                s \in CompareEntryChecksums(m, first, second)}

\* Mutant of compare_entries: the byte by byte stage runs before the
\* digests.
CompareEntriesContentsFirst(m, first, second) ==
  IF m.entries[first].size # m.entries[second].size THEN {Return(m, -1)}
  ELSE UNION {IF c.ret # 0 THEN {Return(c.m, -1)}
              ELSE {IF s.ret # 0 THEN Return(s.m, -1) ELSE Return(s.m, 0) :
                      s \in CompareEntryChecksums(c.m, first, second)} :
                c \in IF thorough_flag
                      THEN CompareEntryContents(m, first, second)
                      ELSE {Return(m, 0)}}

CompareEntries(m, first, second) ==
  IF m.entries[first].size # m.entries[second].size THEN {Return(m, -1)}
  ELSE UNION {IF s.ret # 0 THEN {Return(s.m, -1)}
              ELSE IF thorough_flag
                   THEN {IF c.ret # 0 THEN Return(c.m, -1) ELSE Return(c.m, 0) :
                           c \in CompareEntryContents(s.m, first, second)}
                   ELSE {Return(s.m, 0)} :
                s \in CompareEntryChecksums(m, first, second)}

(* ------------------------ make_entry, copy_entry ----------------------- *)

MakeEntry(m, path, size) ==
  [m EXCEPT !.entries = Append(@, Entry(path, size, UNTOUCHED, ZeroChecksum)),
            !.passes = Append(@, 0),
            !.origin = Append(@, 0)]

\* Mutants of copy_entry: the memcpy of the checksum is missing, and the
\* copy is initialised as make_entry initialises an entry.
CopyEntryNoChecksum(m, entry) ==
  [m EXCEPT !.entries = Append(@, Entry(m.entries[entry].path,
                                        m.entries[entry].size,
                                        m.entries[entry].status,
                                        ZeroChecksum)),
            !.passes = Append(@, m.passes[entry]),
            !.origin = Append(@, entry)]

CopyEntryUntouched(m, entry) ==
  [m EXCEPT !.entries = Append(@, Entry(m.entries[entry].path,
                                        m.entries[entry].size,
                                        UNTOUCHED,
                                        ZeroChecksum)),
            !.passes = Append(@, m.passes[entry]),
            !.origin = Append(@, entry)]

CopyEntry(m, entry) ==
  [m EXCEPT !.entries = Append(@, Entry(m.entries[entry].path,
                                        m.entries[entry].size,
                                        m.entries[entry].status,
                                        m.entries[entry].checksum)),
            !.passes = Append(@, m.passes[entry]),
            !.origin = Append(@, entry)]

(* ------------------------------- actions ------------------------------- *)

NoOp ==
  [op |-> "none", first |-> 0, second |-> 0, ret |-> 0,
   sums |-> 0, streams |-> 0, warned |-> 0, handles |-> 0]

Threads == 1..MaxThreads

\* A thread that is in no call.
Idle ==
  [op |-> "none", first |-> 0, second |-> 0, pc |-> "idle",
   entry |-> 0, stage |-> 0, pos |-> 0, context |-> 0, i |-> 0]

\* The call op(first, second) has returned r: the entries are as it left
\* them and lastOp tells what it returned and did.
Returned(op, first, second, r) ==
  /\ entries' = r.m.entries
  /\ passes' = r.m.passes
  /\ origin' = r.m.origin
  /\ lastOp' = [op |-> op, first |-> first, second |-> second, ret |-> r.ret,
                sums |-> r.m.sums, streams |-> r.m.streams, warned |-> r.m.warned,
                handles |-> r.m.handles]
  /\ UNCHANGED <<fs, thorough_flag, quiet_flag, threads>>

Init ==
  /\ fs \in [Paths -> FileStates]
  /\ entries = <<>>
  /\ passes = <<>>
  /\ origin = <<>>
  /\ thorough_flag \in BOOLEAN
  /\ quiet_flag \in BOOLEAN
  /\ lastOp = NoOp
  /\ threads = [t \in Threads |-> Idle]

\* The environment writes a file (creates it, or replaces its contents).
WriteFile(path, data) ==
  /\ fs[path] # File(data)
  /\ fs' = [fs EXCEPT ![path] = File(data)]
  /\ lastOp' = NoOp
  /\ UNCHANGED <<entries, passes, origin, thorough_flag, quiet_flag, threads>>

\* The environment removes a file, or takes the permission to read it.
RemoveFile(path) ==
  /\ fs[path].exists
  /\ fs' = [fs EXCEPT ![path] = NoFile]
  /\ lastOp' = NoOp
  /\ UNCHANGED <<entries, passes, origin, thorough_flag, quiet_flag, threads>>

make_entry(path, size) ==
  /\ Len(entries) < MaxEntries
  /\ Returned("make_entry", Len(entries) + 1, 0,
              Return(MakeEntry(Machine, path, size), 0))

copy_entry(entry) ==
  /\ Len(entries) < MaxEntries
  /\ Returned("copy_entry", Len(entries) + 1, entry,
              Return(CopyEntry(Machine, entry), 0))

get_entry_checksum(entry) ==
  \E r \in GetEntryChecksum(Machine, entry) :
    Returned("get_entry_checksum", entry, 0, r)

compare_entries(first, second) ==
  \E r \in CompareEntries(Machine, first, second) :
    Returned("compare_entries", first, second, r)

Next ==
  \/ \E path \in Paths, data \in Contents : WriteFile(path, data)
  \/ \E path \in Paths : RemoveFile(path)
  \/ \E path \in Paths, size \in 0..MaxSize : make_entry(path, size)
  \/ \E entry \in Allocated : copy_entry(entry)
  \/ \E entry \in Allocated : get_entry_checksum(entry)
  \/ \E first \in Allocated, second \in Allocated : compare_entries(first, second)

Spec == Init /\ [][Next]_vars

(* ------------------------ the byte by byte stage ----------------------- *)
(* compare_entry_contents called on its own, over longer files.  duff makes  *)
(* an entry with the size stat reports for the path.                         *)

Streams == SeqsUpTo(MaxStream)

InitStreams ==
  /\ fs \in [Paths -> {NoFile} \cup {File(data) : data \in Streams}]
  /\ entries = <<>>
  /\ passes = <<>>
  /\ origin = <<>>
  /\ thorough_flag = TRUE
  /\ quiet_flag = FALSE
  /\ lastOp = NoOp
  /\ threads = [t \in Threads |-> Idle]

compare_entry_contents(first, second) ==
  \E r \in CompareEntryContents(Machine, first, second) :
    Returned("compare_entry_contents", first, second, r)

NextStreams ==
  \/ \E path \in Paths : make_entry(path, Len(fs[path].data))
  \/ \E first \in Allocated, second \in Allocated :
       compare_entry_contents(first, second)

SpecStreams == InitStreams /\ [][NextStreams]_vars

(* -------------------------- calls, step by step ------------------------ *)
(* The same functions followed statement by statement: a thread of control   *)
(* is in one call and at one place (pc) of it.  A step is one access to an   *)
(* entry or to a file; what lies between two accesses to shared state is     *)
(* local and belongs to the step before.  duffentry.c takes no lock and      *)
(* uses no atomic: the steps of different threads interleave freely.         *)

Jump(t, thread) == threads' = [threads EXCEPT ![t] = thread]

\* compare_entry_checksums returns ret: its caller is the thread itself, or
\* compare_entries at line 179, which returns -1 or goes on to line 182.
ChecksumsReturn(thread, ret) ==
  IF thread.op = "compare_entries" /\ ret = 0
  THEN [thread EXCEPT !.pc = "thorough", !.entry = 0, !.stage = 0, !.i = 0]
  ELSE Idle

\* get_entry_checksum returns ret: its caller is the thread itself, or
\* compare_entry_checksums at line 197 or at line 200.
GecReturn(thread, ret) ==
  IF thread.op = "get_entry_checksum" THEN Idle
  ELSE IF ret # 0 THEN ChecksumsReturn(thread, -1)
  ELSE IF thread.stage = 1
       THEN [thread EXCEPT !.pc = "status", !.entry = thread.second, !.stage = 2,
                           !.pos = 0, !.context = 0, !.i = 0]
       ELSE [thread EXCEPT !.pc = "digests", !.entry = 0, !.stage = 0,
                           !.pos = 0, !.context = 0, !.i = 0]

\* A thread calls get_entry_checksum(entry).
t_get_entry_checksum(t, entry) ==
  /\ threads[t].pc = "idle"
  /\ Jump(t, [Idle EXCEPT !.op = "get_entry_checksum", !.first = entry,
                          !.pc = "status", !.entry = entry])
  /\ lastOp' = NoOp
  /\ UNCHANGED <<fs, entries, passes, origin, thorough_flag, quiet_flag>>

\* A thread calls compare_entry_checksums(first, second): line 197.
t_compare_entry_checksums(t, first, second) ==
  /\ threads[t].pc = "idle"
  /\ Jump(t, [Idle EXCEPT !.op = "compare_entry_checksums",
                          !.first = first, !.second = second,
                          !.pc = "status", !.entry = first, !.stage = 1])
  /\ lastOp' = NoOp
  /\ UNCHANGED <<fs, entries, passes, origin, thorough_flag, quiet_flag>>

\* A thread calls compare_entries(first, second).
t_compare_entries(t, first, second) ==
  /\ threads[t].pc = "idle"
  /\ Jump(t, [Idle EXCEPT !.op = "compare_entries",
                          !.first = first, !.second = second, !.pc = "size"])
  /\ lastOp' = NoOp
  /\ UNCHANGED <<fs, entries, passes, origin, thorough_flag, quiet_flag>>

\* A thread calls compare_entry_contents(first, second).
t_compare_entry_contents(t, first, second) ==
  /\ threads[t].pc = "idle"
  /\ Jump(t, [Idle EXCEPT !.op = "compare_entry_contents",
                          !.first = first, !.second = second, !.pc = "streams"])
  /\ lastOp' = NoOp
  /\ UNCHANGED <<fs, entries, passes, origin, thorough_flag, quiet_flag>>

\* compare_entries, lines 176-179: the test of the sizes.
t_size(t) ==
  LET thread == threads[t]
  IN /\ thread.pc = "size"
     /\ Jump(t, IF entries[thread.first].size # entries[thread.second].size
                THEN Idle
                ELSE [thread EXCEPT !.pc = "status", !.entry = thread.first,
                                    !.stage = 1])
     /\ lastOp' = NoOp
     /\ UNCHANGED <<fs, entries, passes, origin, thorough_flag, quiet_flag>>

\* get_entry_checksum, lines 124-127: the read of entry->status.
t_status(t) ==
  LET thread == threads[t]
      status == entries[thread.entry].status
  IN /\ thread.pc = "status"
     /\ Jump(t, IF status = INVALID THEN GecReturn(thread, -1)
                ELSE IF status # UNTOUCHED THEN GecReturn(thread, 0)
                ELSE [thread EXCEPT !.pc = "fopen"])
     /\ lastOp' = NoOp
     /\ UNCHANGED <<fs, entries, passes, origin, thorough_flag, quiet_flag>>

\* get_entry_checksum, lines 129-139: fopen; when it fails, the write of
\* INVALID to entry->status and the return.
t_fopen(t) ==
  LET thread == threads[t]
      entry == thread.entry
  IN /\ thread.pc = "fopen"
     /\ passes' = [passes EXCEPT ![entry] = Min(@ + 1, MaxPasses)]
     /\ IF ~fs[entries[entry].path].exists
        THEN /\ entries' = [entries EXCEPT ![entry].status = INVALID]
             /\ Jump(t, GecReturn(thread, -1))
        ELSE /\ Jump(t, [thread EXCEPT !.pc = "fread", !.pos = 0,
                                       !.context = SHA1Init])
             /\ UNCHANGED entries
     /\ lastOp' = NoOp
     /\ UNCHANGED <<fs, origin, thorough_flag, quiet_flag>>

\* get_entry_checksum, lines 141-162: one turn of the for (;;) loop; on
\* ferror the write of INVALID and the return, at a read of size 0 the
\* fclose.
t_fread(t) ==
  LET thread == threads[t]
      entry == thread.entry
      data == fs[entries[entry].path].data
  IN /\ thread.pc = "fread"
     /\ \E errAt \in ErrAts(data) :
          LET r == fread(data, thread.pos, BufSize, errAt)
              size == Len(r.bytes)
          IN IF r.error
             THEN /\ entries' = [entries EXCEPT ![entry].status = INVALID]
                  /\ Jump(t, GecReturn(thread, -1))
             ELSE /\ UNCHANGED entries
                  /\ Jump(t, IF size = 0
                             THEN [thread EXCEPT !.pc = "final", !.pos = 0, !.i = 0]
                             ELSE [thread EXCEPT
                                     !.pos = @ + size,
                                     !.context = SHA1Update(@, r.bytes)])
     /\ lastOp' = NoOp
     /\ UNCHANGED <<fs, passes, origin, thorough_flag, quiet_flag>>

\* get_entry_checksum, line 164: SHA1Final stores the digest in
\* entry->checksum, one byte after the other.
t_final(t) ==
  LET thread == threads[t]
      i == thread.i
  IN /\ thread.pc = "final"
     /\ entries' = [entries EXCEPT ![thread.entry].checksum[i + 1] =
                                      SHA1Final(thread.context)[i + 1]]
     /\ Jump(t, IF i + 1 < SHA1_HASH_SIZE
                THEN [thread EXCEPT !.i = i + 1]
                ELSE [thread EXCEPT !.pc = "checksummed", !.i = 0, !.context = 0])
     /\ lastOp' = NoOp
     /\ UNCHANGED <<fs, passes, origin, thorough_flag, quiet_flag>>

\* get_entry_checksum, lines 165-166: the write of CHECKSUMMED.
t_checksummed(t) ==
  LET thread == threads[t]
  IN /\ thread.pc = "checksummed"
     /\ entries' = [entries EXCEPT ![thread.entry].status = CHECKSUMMED]
     /\ Jump(t, GecReturn(thread, 0))
     /\ lastOp' = NoOp
     /\ UNCHANGED <<fs, passes, origin, thorough_flag, quiet_flag>>

\* compare_entry_checksums, lines 203-207: one turn of the loop over the
\* bytes of the two digests.
t_digests(t) ==
  LET thread == threads[t]
      i == thread.i
  IN /\ thread.pc = "digests"
     /\ Jump(t, IF entries[thread.first].checksum[i + 1]
                     # entries[thread.second].checksum[i + 1]
                THEN ChecksumsReturn(thread, -1)
                ELSE IF i + 1 < SHA1_HASH_SIZE
                     THEN [thread EXCEPT !.i = i + 1]
                     ELSE ChecksumsReturn(thread, 0))
     /\ lastOp' = NoOp
     /\ UNCHANGED <<fs, entries, passes, origin, thorough_flag, quiet_flag>>

\* compare_entries, lines 182-188: the test of thorough_flag.
t_thorough(t) ==
  LET thread == threads[t]
  IN /\ thread.pc = "thorough"
     /\ Jump(t, IF thorough_flag THEN [thread EXCEPT !.pc = "streams"] ELSE Idle)
     /\ lastOp' = NoOp
     /\ UNCHANGED <<fs, entries, passes, origin, thorough_flag, quiet_flag>>

\* compare_entry_contents, lines 219-229: the two fopen calls.
t_streams(t) ==
  LET thread == threads[t]
  IN /\ thread.pc = "streams"
     /\ Jump(t, IF \/ ~fs[entries[thread.first].path].exists
                   \/ ~fs[entries[thread.second].path].exists
                THEN Idle
                ELSE [thread EXCEPT !.pc = "fgetc", !.pos = 0])
     /\ lastOp' = NoOp
     /\ UNCHANGED <<fs, entries, passes, origin, thorough_flag, quiet_flag>>

\* Mutant of the do ... while loop: the loop goes on at EOF.
t_fgetcNoEOF(t) ==
  LET thread == threads[t]
      pos == thread.pos
      fdata == fs[entries[thread.first].path].data
      sdata == fs[entries[thread.second].path].data
  IN /\ thread.pc = "fgetc"
     /\ \E c1 \in {pos, NoErr(fdata)}, c2 \in {pos, NoErr(sdata)} :
          LET fc == fgetc(fdata, pos, c1)
              sc == fgetc(sdata, pos, c2)
          IN Jump(t, IF fc # sc THEN Idle
                     ELSE [thread EXCEPT !.pos = Min(pos + 1, MaxLen + 2)])
     /\ lastOp' = NoOp
     /\ UNCHANGED <<fs, entries, passes, origin, thorough_flag, quiet_flag>>

\* compare_entry_contents, lines 231-245: one turn of the do ... while loop;
\* either fgetc may meet a read error.
t_fgetc(t) ==
  LET thread == threads[t]
      pos == thread.pos
      fdata == fs[entries[thread.first].path].data
      sdata == fs[entries[thread.second].path].data
  IN /\ thread.pc = "fgetc"
     /\ \E c1 \in {pos, NoErr(fdata)}, c2 \in {pos, NoErr(sdata)} :
          LET fc == fgetc(fdata, pos, c1)
              sc == fgetc(sdata, pos, c2)
          IN Jump(t, IF fc # sc THEN Idle
                     ELSE IF fc # EOF THEN [thread EXCEPT !.pos = pos + 1]
                     ELSE Idle)
     /\ lastOp' = NoOp
     /\ UNCHANGED <<fs, entries, passes, origin, thorough_flag, quiet_flag>>

\* Threads that call get_entry_checksum on the entries, and
\* compare_entry_checksums on the first and the second entry, each at its
\* own pace, over files that stay as they are.
InitThreads == Init /\ ~thorough_flag /\ ~quiet_flag

NextThreads ==
  \/ \E path \in Paths : make_entry(path, 0)
  \/ \E t \in Threads, entry \in Allocated : t_get_entry_checksum(t, entry)
  \/ \E t \in Threads, first \in Allocated, second \in Allocated :
       first < second /\ t_compare_entry_checksums(t, first, second)
  \/ \E t \in Threads : t_status(t)
  \/ \E t \in Threads : t_fopen(t)
  \/ \E t \in Threads : t_fread(t)
  \/ \E t \in Threads : t_final(t)
  \/ \E t \in Threads : t_checksummed(t)
  \/ \E t \in Threads : t_digests(t)

SpecThreads == InitThreads /\ [][NextThreads]_vars

\* One statement of the call the thread is in.
Step(t) ==
  \/ t_size(t)
  \/ t_status(t)
  \/ t_fopen(t)
  \/ t_fread(t)
  \/ t_final(t)
  \/ t_checksummed(t)
  \/ t_digests(t)
  \/ t_thorough(t)
  \/ t_streams(t)
  \/ t_fgetc(t)

\* The single threaded program: one thread calls the functions of
\* duffentry.c on entries made with the size stat reports, over files that
\* stay as they are, and a call that has begun goes on: the thread is
\* never stopped for good between two statements.
InitSteps == Init /\ ~quiet_flag

NextSteps ==
  \/ \E path \in Paths : make_entry(path, Len(fs[path].data))
  \/ \E entry \in Allocated : t_get_entry_checksum(1, entry)
  \/ \E first \in Allocated, second \in Allocated :
       t_compare_entry_checksums(1, first, second)
  \/ \E first \in Allocated, second \in Allocated :
       t_compare_entry_contents(1, first, second)
  \/ \E first \in Allocated, second \in Allocated :
       t_compare_entries(1, first, second)
  \/ Step(1)

SpecSteps == InitSteps /\ [][NextSteps]_vars /\ WF_vars(Step(1))

(* ------------------------------ properties ----------------------------- *)
(* A property of a call is stated over every reachable state and every way   *)
(* the call can return from it.                                              *)

Exists(entry) == fs[entries[entry].path].exists

Data(entry) == fs[entries[entry].path].data

\* The digest of the empty input.
EmptyDigest == SHA1Final(SHA1Init)

\* The entry has no digest yet, or the digest of the file as it is now.
Current(entry) ==
  \/ entries[entry].status = UNTOUCHED
  \/ /\ entries[entry].status = CHECKSUMMED
     /\ entries[entry].checksum = SHA1(Data(entry))

(* C1: compare_entries on two entries of different size returns -1, makes no *)
(* fopen call, and leaves the status and the digest of every entry as they   *)
(* were, whatever the statuses and thorough_flag.                            *)
C1_SizeMismatch ==
  \A first \in Allocated, second \in Allocated :
    entries[first].size # entries[second].size =>
      \A r \in CompareEntries(Machine, first, second) :
        /\ r.ret = -1
        /\ r.m.sums = 0
        /\ r.m.streams = 0
        /\ r.m.entries = entries

C1_Witness ==
  /\ lastOp.op = "compare_entries"
  /\ entries[lastOp.first].size # entries[lastOp.second].size
  /\ lastOp.ret = -1 /\ lastOp.sums = 0 /\ lastOp.streams = 0
  /\ thorough_flag
  /\ Exists(lastOp.first) /\ Exists(lastOp.second)
  /\ entries[lastOp.first].status = UNTOUCHED
  /\ entries[lastOp.second].status = UNTOUCHED

(* C2, as claimed: whenever the file of one of two distinct entries cannot  *)
(* be opened, compare_entries on the pair returns -1, also when the digest   *)
(* of that entry is cached and thorough_flag is off.                         *)
C2_Original ==
  \A first \in Allocated, second \in Allocated :
    (first # second /\ (~Exists(first) \/ ~Exists(second))) =>
      \A r \in CompareEntries(Machine, first, second) : r.ret = -1

(* C2, amended: whenever the file of one of two distinct entries cannot be   *)
(* opened, compare_entries on the pair returns -1 if that entry is not       *)
(* CHECKSUMMED or thorough_flag is on.                                       *)
C2_Amended ==
  \A first \in Allocated, second \in Allocated :
    (/\ first # second
     /\ \E x \in {first, second} :
          /\ ~Exists(x)
          /\ entries[x].status # CHECKSUMMED \/ thorough_flag) =>
      \A r \in CompareEntries(Machine, first, second) : r.ret = -1

C2_Witness ==
  /\ lastOp.op = "compare_entries"
  /\ lastOp.first # lastOp.second
  /\ entries[lastOp.first].size = entries[lastOp.second].size
  /\ Exists(lastOp.first) /\ ~Exists(lastOp.second)
  /\ entries[lastOp.first].status = CHECKSUMMED
  /\ entries[lastOp.second].status = INVALID
  /\ lastOp.sums = 2
  /\ lastOp.ret = -1

(* C3: get_entry_checksum is memoized.  An entry that is CHECKSUMMED has    *)
(* one digest pass behind it; every later call on it, directly or through    *)
(* compare_entries, returns 0 from get_entry_checksum without an fopen and   *)
(* leaves status and digest as they are, whatever has become of the file.    *)
(* The first call, on an UNTOUCHED entry, opens the file once.               *)
C3_Memoized ==
  \A e \in Allocated :
    /\ passes[e] = IF entries[e].status = UNTOUCHED THEN 0 ELSE 1
    /\ entries[e].status = UNTOUCHED =>
         \A r \in GetEntryChecksum(Machine, e) :
           r.m.sums = 1 /\ r.m.passes[e] = 1
    /\ entries[e].status = CHECKSUMMED =>
         /\ \A r \in GetEntryChecksum(Machine, e) :
              r.ret = 0 /\ r.m.sums = 0 /\ r.m.entries = entries
         /\ \A x \in Allocated :
              \A r \in CompareEntries(Machine, e, x) \cup CompareEntries(Machine, x, e) :
                /\ r.m.entries[e] = entries[e]
                /\ r.m.passes[e] = 1
                /\ entries[x].status = CHECKSUMMED => r.m.sums = 0

C3_Witness ==
  /\ lastOp.op = "get_entry_checksum"
  /\ lastOp.ret = 0 /\ lastOp.sums = 0
  /\ entries[lastOp.first].status = CHECKSUMMED
  /\ passes[lastOp.first] = 1
  /\ ~Exists(lastOp.first)

C5_CopyIndependent ==
  /\ lastOp.op = "copy_entry" =>
       /\ lastOp.first # lastOp.second
       /\ entries[lastOp.first] = entries[lastOp.second]
  /\ \A c \in Allocated, e \in Allocated :
       (c # e /\ (origin[c] = e \/ origin[e] = c)) =>
         \A r \in GetEntryChecksum(Machine, c) \cup CompareEntries(Machine, c, c) :
           r.m.entries[e] = entries[e]

C5_Witness ==
  /\ lastOp.op = "get_entry_checksum"
  /\ origin[lastOp.first] # 0
  /\ entries[lastOp.first].status = CHECKSUMMED
  /\ entries[origin[lastOp.first]].status = UNTOUCHED
  /\ entries[origin[lastOp.first]].checksum = ZeroChecksum

(* C6: for two entries of equal size over readable files of that size whose  *)
(* contents differ and whose digests are equal, compare_entries returns -1   *)
(* with thorough_flag on and 0 with thorough_flag off.                       *)
C6_Collision ==
  \A first \in Allocated, second \in Allocated :
    (/\ Exists(first) /\ Exists(second)
     /\ entries[first].size = Len(Data(first))
     /\ entries[second].size = Len(Data(second))
     /\ Len(Data(first)) = Len(Data(second))
     /\ Data(first) # Data(second)
     /\ SHA1(Data(first)) = SHA1(Data(second))
     /\ Current(first) /\ Current(second)) =>
      \A r \in CompareEntries(Machine, first, second) :
        ~r.m.fail => r.ret = IF thorough_flag THEN -1 ELSE 0

C6_Witness ==
  /\ lastOp.op = "compare_entries"
  /\ thorough_flag
  /\ Exists(lastOp.first) /\ Exists(lastOp.second)
  /\ Data(lastOp.first) = <<0>> /\ Data(lastOp.second) = <<255>>
  /\ entries[lastOp.first].size = 1 /\ entries[lastOp.second].size = 1
  /\ entries[lastOp.first].status = CHECKSUMMED
  /\ entries[lastOp.second].status = CHECKSUMMED
  /\ entries[lastOp.first].checksum = entries[lastOp.second].checksum
  /\ lastOp.sums = 2 /\ lastOp.streams = 2
  /\ lastOp.ret = -1

(* C7: two distinct entries of size 0 over readable files of length 0       *)
(* compare equal, with thorough_flag off and on, and both are then           *)
(* CHECKSUMMED with the digest of the empty input.                           *)
C7_EmptyFiles ==
  \A first \in Allocated, second \in Allocated :
    (/\ first # second
     /\ Exists(first) /\ Exists(second)
     /\ Data(first) = <<>> /\ Data(second) = <<>>
     /\ entries[first].size = 0 /\ entries[second].size = 0
     /\ Current(first) /\ Current(second)) =>
      \A r \in CompareEntries(Machine, first, second) :
        ~r.m.fail =>
          /\ r.ret = 0
          /\ \A x \in {first, second} :
               /\ r.m.entries[x].status = CHECKSUMMED
               /\ r.m.entries[x].checksum = EmptyDigest

C7_Witness ==
  /\ lastOp.op = "compare_entries"
  /\ lastOp.first # lastOp.second
  /\ entries[lastOp.first].path # entries[lastOp.second].path
  /\ Exists(lastOp.first) /\ Exists(lastOp.second)
  /\ Data(lastOp.first) = <<>> /\ Data(lastOp.second) = <<>>
  /\ entries[lastOp.first].status = CHECKSUMMED
  /\ entries[lastOp.second].status = CHECKSUMMED
  /\ entries[lastOp.first].checksum = EmptyDigest
  /\ entries[lastOp.second].checksum = EmptyDigest
  /\ thorough_flag
  /\ lastOp.sums = 2 /\ lastOp.streams = 2
  /\ lastOp.ret = 0

(* C8: the status of an entry changes monotonically.  make_entry yields an   *)
(* UNTOUCHED entry; no step takes an entry away; an entry that is            *)
(* CHECKSUMMED or INVALID keeps its status in every step, so that the only   *)
(* changes are UNTOUCHED to CHECKSUMMED and UNTOUCHED to INVALID.            *)
C8_StatusMonotonic ==
  [][/\ Len(entries') >= Len(entries)
     /\ \A e \in Allocated :
          entries[e].status # UNTOUCHED => entries'[e].status = entries[e].status
     /\ lastOp'.op = "make_entry" =>
          entries'[lastOp'.first].status = UNTOUCHED]_vars

C8_Witness ==
  /\ lastOp.op = "get_entry_checksum"
  /\ entries[lastOp.first].status = INVALID
  /\ origin[lastOp.first] = 0
  /\ Exists(lastOp.first)
  /\ lastOp.ret = -1 /\ lastOp.sums = 0

(* C9: the digest bytes of an entry are meaningful exactly when it is        *)
(* CHECKSUMMED.  An UNTOUCHED or INVALID entry holds the all-zero digest; a  *)
(* CHECKSUMMED entry holds the digest of a whole file; a successful          *)
(* get_entry_checksum stores the digest of exactly the bytes of the file it  *)
(* read, and a failed one (fopen or a read in mid-stream) stores nothing.    *)
C9_DigestMeaningful ==
  \A e \in Allocated :
    /\ entries[e].status \in {UNTOUCHED, INVALID} => entries[e].checksum = ZeroChecksum
    /\ entries[e].status = CHECKSUMMED =>
         entries[e].checksum \in {SHA1(d) : d \in Contents}
    /\ entries[e].status = UNTOUCHED =>
         \A r \in GetEntryChecksum(Machine, e) :
           IF r.ret = 0
           THEN /\ Exists(e)
                /\ r.m.entries[e].status = CHECKSUMMED
                /\ r.m.entries[e].checksum = SHA1(Data(e))
           ELSE /\ r.m.entries[e].status = INVALID
                /\ r.m.entries[e].checksum = ZeroChecksum

C9_Witness ==
  /\ lastOp.op = "get_entry_checksum"
  /\ Exists(lastOp.first)
  /\ Data(lastOp.first) # <<>>
  /\ lastOp.ret = -1 /\ lastOp.sums = 1
  /\ entries[lastOp.first].status = INVALID
  /\ entries[lastOp.first].checksum = ZeroChecksum

(* C10: once an entry is INVALID, get_entry_checksum on it returns -1        *)
(* without an fopen and without a change, also when its file is readable,    *)
(* and compare_entries of it with an entry of equal size returns -1.         *)
C10_InvalidSticky ==
  \A e \in Allocated :
    entries[e].status = INVALID =>
      /\ \A r \in GetEntryChecksum(Machine, e) :
           r.ret = -1 /\ r.m.sums = 0 /\ r.m.entries = entries
      /\ \A x \in Allocated :
           entries[x].size = entries[e].size =>
             \A r \in CompareEntries(Machine, e, x) \cup CompareEntries(Machine, x, e) :
               r.ret = -1 /\ r.m.entries[e] = entries[e]

C10_Witness ==
  /\ lastOp.op = "compare_entries"
  /\ lastOp.first # lastOp.second
  /\ entries[lastOp.first].size = entries[lastOp.second].size
  /\ entries[lastOp.first].status = CHECKSUMMED
  /\ entries[lastOp.second].status = INVALID
  /\ Exists(lastOp.first) /\ Exists(lastOp.second)
  /\ lastOp.sums = 0 /\ lastOp.streams = 0
  /\ lastOp.ret = -1

(* C11, as claimed: when threads call get_entry_checksum or                  *)
(* compare_entry_checksums concurrently, under every interleaving the file   *)
(* of an entry is opened for its digest at most once, and while a thread has *)
(* stored a part of the digest of an entry (some bytes, not yet all) no      *)
(* other thread stores into that digest or reads it.                         *)
C11_Original ==
  /\ \A e \in Allocated : passes[e] <= 1
  /\ \A t \in Threads, u \in Threads :
       (/\ t # u
        /\ threads[t].pc = "final"
        /\ threads[t].i \in 1..(SHA1_HASH_SIZE - 1)) =>
         /\ ~(threads[u].pc = "final" /\ threads[u].entry = threads[t].entry)
         /\ ~(/\ threads[u].pc = "digests"
              /\ threads[t].entry \in {threads[u].first, threads[u].second})

(* C12: every call returns with no stream left open.  get_entry_checksum,    *)
(* compare_entry_contents and compare_entries close every stream they have   *)
(* opened, on every way out: an fopen that fails (also that of the other     *)
(* file), a read error, a mismatch, the end of the streams.                  *)
C12_HandlesClosed ==
  /\ lastOp.handles = 0
  /\ \A first \in Allocated :
       /\ \A r \in GetEntryChecksum(Machine, first) : r.m.handles = 0
       /\ \A second \in Allocated :
            \A r \in CompareEntryContents(Machine, first, second)
                        \cup CompareEntries(Machine, first, second) :
              r.m.handles = 0

C12_Witness ==
  /\ lastOp.op = "compare_entries"
  /\ thorough_flag
  /\ Exists(lastOp.first) /\ Exists(lastOp.second)
  /\ Data(lastOp.first) = <<0>> /\ Data(lastOp.second) = <<255>>
  /\ lastOp.sums = 2 /\ lastOp.streams = 2
  /\ lastOp.ret = -1
  /\ lastOp.handles = 0

(* C13, as claimed: compare_entry_contents returns -1 whenever one of the    *)
(* two files cannot be opened or a read of one of the two streams fails, at  *)
(* any offset, also when the read error of one stream meets the end or a     *)
(* read error of the other.                                                  *)
C13_Original ==
  \A first \in Allocated, second \in Allocated :
    \A r \in CompareEntryContents(Machine, first, second) :
      r.m.fail => r.ret = -1

(* C14: get_entry_checksum(e), whether it succeeds or fails, allocates and   *)
(* frees nothing and changes nothing but the status and the digest of e: the *)
(* path and the size of e and every field of every other entry stay, also of *)
(* an entry of the same path, and compare_entries on the other entries has   *)
(* the same verdicts after the call as before it.                            *)
C14_FailureLocal ==
  \A e \in Allocated :
    \A r \in GetEntryChecksum(Machine, e) :
      /\ DOMAIN r.m.entries = DOMAIN entries
      /\ r.m.entries[e].path = entries[e].path
      /\ r.m.entries[e].size = entries[e].size
      /\ \A x \in Allocated \ {e} : r.m.entries[x] = entries[x]
      /\ \A x \in Allocated \ {e}, y \in Allocated \ {e} :
           {c.ret : c \in CompareEntries(r.m, x, y)}
             = {c.ret : c \in CompareEntries(Machine, x, y)}

C14_Witness ==
  /\ lastOp.op = "get_entry_checksum"
  /\ lastOp.ret = -1 /\ lastOp.sums = 1
  /\ entries[lastOp.first].status = INVALID
  /\ \E x \in Allocated \ {lastOp.first} :
       /\ entries[x].path = entries[lastOp.first].path
       /\ entries[x].size = entries[lastOp.first].size
       /\ entries[x].status = UNTOUCHED

(* C15: compare_entries runs its stages in order and only while no           *)
(* inequality is proved.  A digest pass (fopen in get_entry_checksum) is     *)
(* made only when the sizes are equal; the streams of the byte by byte stage *)
(* are opened only when thorough_flag is on, the sizes are equal and both    *)
(* digests were obtained and are equal; 0 is returned only when the sizes    *)
(* are equal, both digests were obtained and are equal and, with             *)
(* thorough_flag on, the byte by byte stage has run over both files and,     *)
(* its reads succeeding, found them equal.                                   *)
C15_StagesInOrder ==
  \A first \in Allocated, second \in Allocated :
    \A r \in CompareEntries(Machine, first, second) :
      LET sizes == entries[first].size = entries[second].size
          digests == /\ r.m.entries[first].status = CHECKSUMMED
                     /\ r.m.entries[second].status = CHECKSUMMED
                     /\ r.m.entries[first].checksum = r.m.entries[second].checksum
      IN /\ r.m.sums > 0 => sizes
         /\ r.m.streams > 0 => (thorough_flag /\ sizes /\ digests)
         /\ (sizes /\ digests /\ thorough_flag) => r.m.streams = 2
         /\ r.ret = 0 =>
              /\ sizes /\ digests
              /\ thorough_flag =>
                   /\ r.m.streams = 2
                   /\ Exists(first) /\ Exists(second)
                   /\ ~r.m.fail => Data(first) = Data(second)

C15_Witness ==
  /\ lastOp.op = "compare_entries"
  /\ thorough_flag
  /\ lastOp.first # lastOp.second
  /\ Exists(lastOp.first) /\ Exists(lastOp.second)
  /\ entries[lastOp.first].size = entries[lastOp.second].size
  /\ entries[lastOp.first].status = CHECKSUMMED
  /\ entries[lastOp.second].status = CHECKSUMMED
  /\ entries[lastOp.first].checksum # entries[lastOp.second].checksum
  /\ lastOp.sums = 2 /\ lastOp.streams = 0
  /\ lastOp.ret = -1

\* The offset at which the lockstep reads of two streams first differ, or at
\* which both end.
FirstMismatch(fdata, sdata) ==
  CHOOSE k \in 0..Min(Len(fdata), Len(sdata)) :
    /\ \A j \in 1..k : fdata[j] = sdata[j]
    /\ k = Len(fdata) \/ k = Len(sdata) \/ fdata[k + 1] # sdata[k + 1]

(* C16: when both files open and every read succeeds, compare_entry_contents *)
(* returns 0 if the two files hold the same bytes (the same length and the   *)
(* same byte at every offset) and -1 if not; the loop makes its last reads   *)
(* at the first offset where the streams differ, or at their common end; a   *)
(* byte of any value, 255 too, is not taken for the end of the stream.       *)
C16_ByteExact ==
  \A first \in Allocated, second \in Allocated :
    (Exists(first) /\ Exists(second)) =>
      /\ \A r \in CompareEntryContents(Machine, first, second) :
           ~r.m.fail => r.ret = IF Data(first) = Data(second) THEN 0 ELSE -1
      /\ LET l == ContentsLoop(Data(first), Data(second), 0,
                               NoErr(Data(first)), NoErr(Data(second)))
         IN /\ ~l.error
            /\ l.pos = FirstMismatch(Data(first), Data(second))
            /\ l.result = IF Data(first) = Data(second) THEN 0 ELSE -1

C16_Witness ==
  /\ lastOp.op = "compare_entry_contents"
  /\ Exists(lastOp.first) /\ Exists(lastOp.second)
  /\ Data(lastOp.first) = <<255, 0, 1>>
  /\ Data(lastOp.second) = <<255, 0, 255>>
  /\ lastOp.streams = 2 /\ lastOp.handles = 0
  /\ lastOp.ret = -1

(* C17: every call of get_entry_checksum, compare_entry_checksums,           *)
(* compare_entry_contents and compare_entries returns: a thread that is in   *)
(* a call is later in none.  The read loops stay within the files: the loop  *)
(* of get_entry_checksum reads at offsets up to the length of the file, the  *)
(* lockstep loop at offsets up to the length of the shorter file.            *)
C17_Terminates ==
  /\ [](\A t \in Threads :
          /\ threads[t].pc = "fread" =>
               threads[t].pos <= Len(Data(threads[t].entry))
          /\ threads[t].pc = "fgetc" =>
               threads[t].pos <= Min(Len(Data(threads[t].first)),
                                     Len(Data(threads[t].second))))
  /\ \A t \in Threads : (threads[t].pc # "idle") ~> (threads[t].pc = "idle")

C17_Witness ==
  /\ threads[1].op = "compare_entries"
  /\ threads[1].pc = "fgetc"
  /\ threads[1].pos = 1
  /\ Data(threads[1].first) = <<255>>
  /\ Data(threads[1].second) = <<255>>
  /\ entries[threads[1].first].status = CHECKSUMMED
  /\ entries[threads[1].second].status = CHECKSUMMED

\* The entries of a set that a call has taken from UNTOUCHED to INVALID.
Invalidated(m, among) ==
  {x \in among : entries[x].status = UNTOUCHED /\ m.entries[x].status = INVALID}

(* C18: a call writes one warning for every entry it takes from UNTOUCHED to *)
(* INVALID when quiet_flag is off, and no other: none with quiet_flag on,    *)
(* none for an entry that is INVALID already, which stays INVALID.  As the   *)
(* step from UNTOUCHED to INVALID is taken at most once by an entry, its     *)
(* failure is reported at most once.                                         *)
C18_WarnedOnce ==
  \A first \in Allocated :
    /\ \A r \in GetEntryChecksum(Machine, first) :
         /\ r.m.warned =
              IF quiet_flag THEN 0 ELSE Cardinality(Invalidated(r.m, {first}))
         /\ entries[first].status = INVALID =>
              r.m.warned = 0 /\ r.m.entries[first].status = INVALID
    /\ \A second \in Allocated :
         \A r \in CompareEntries(Machine, first, second) :
           /\ r.m.warned =
                IF quiet_flag THEN 0
                ELSE Cardinality(Invalidated(r.m, {first, second}))
           /\ \A x \in Allocated :
                entries[x].status = INVALID => r.m.entries[x].status = INVALID
           /\ (/\ entries[first].status = INVALID
               /\ entries[second].status = INVALID) => r.m.warned = 0

C18_Witness ==
  /\ lastOp.op = "compare_entries"
  /\ ~quiet_flag
  /\ lastOp.first # lastOp.second
  /\ entries[lastOp.first].size = entries[lastOp.second].size
  /\ entries[lastOp.first].status = INVALID
  /\ ~Exists(lastOp.first)
  /\ lastOp.sums = 0 /\ lastOp.warned = 0
  /\ lastOp.ret = -1

(* C19: compare_entry_checksums stops at the first entry.  When              *)
(* get_entry_checksum(first) fails (first is INVALID at the return), the     *)
(* call returns -1 and the second entry, if it is another entry, is as it    *)
(* was: its file is not opened (every fopen of the call was for the first    *)
(* entry), its status and digest are unchanged, an UNTOUCHED second entry is *)
(* still UNTOUCHED.  The same holds of compare_entries, which calls it.      *)
C19_ShortCircuit ==
  \A first \in Allocated, second \in Allocated :
    first # second =>
      \A r \in CompareEntryChecksums(Machine, first, second)
                  \cup CompareEntries(Machine, first, second) :
        r.m.entries[first].status = INVALID =>
          /\ r.ret = -1
          /\ r.m.entries[second] = entries[second]
          /\ r.m.passes[second] = passes[second]
          /\ r.m.sums = r.m.passes[first] - passes[first]
          /\ r.m.streams = 0

C19_Witness ==
  /\ lastOp.op = "compare_entries"
  /\ lastOp.first # lastOp.second
  /\ entries[lastOp.first].size = entries[lastOp.second].size
  /\ entries[lastOp.first].status = INVALID
  /\ entries[lastOp.second].status = UNTOUCHED
  /\ passes[lastOp.second] = 0
  /\ Exists(lastOp.second)
  /\ lastOp.sums = 1
  /\ lastOp.ret = -1

\* The verdicts compare_entries(first, second) can return from this state,
\* and those it can return when no fopen and no read of the call fails.
Verdicts(first, second) ==
  {r.ret : r \in CompareEntries(Machine, first, second)}

CleanVerdicts(first, second) ==
  {r.ret : r \in {c \in CompareEntries(Machine, first, second) : ~c.m.fail}}

(* C20: the verdict of compare_entries is symmetric.  From the same state    *)
(* of the entries and of the files, compare_entries(a, b) and                *)
(* compare_entries(b, a) can return the same verdicts, with thorough_flag    *)
(* off and on; the calls in which no fopen and no read fails have at most   *)
(* one verdict, the same for both orders.                                    *)
C20_Symmetric ==
  \A a \in Allocated, b \in Allocated :
    /\ Verdicts(a, b) = Verdicts(b, a)
    /\ Cardinality(CleanVerdicts(a, b) \cup CleanVerdicts(b, a)) <= 1

C20_Witness ==
  /\ lastOp.op = "compare_entries"
  /\ lastOp.first > lastOp.second
  /\ thorough_flag
  /\ entries[lastOp.first].path # entries[lastOp.second].path
  /\ entries[lastOp.first].status = CHECKSUMMED
  /\ entries[lastOp.second].status = CHECKSUMMED
  /\ Data(lastOp.first) = <<1>> /\ Data(lastOp.second) = <<1>>
  /\ lastOp.sums = 2 /\ lastOp.streams = 2
  /\ lastOp.ret = 0

====
